---- MODULE Spec2Model ----
(***************************************************************************)
(* A model of the postprocessing OBJ example (src/unnamed/part_000): the   *)
(* startup promise chain load -> initialize -> render, the render loop,    *)
(* and the resize handler built around setTimeout.                         *)
(*                                                                         *)
(* The browser and the libraries are the environment.  What the model      *)
(* takes from them:                                                        *)
(*  - the event loop: one task at a time, and the promise reactions        *)
(*    (microtasks) queued by a task run before the next task starts;       *)
(*  - a promise settles once: later resolve/reject calls do nothing;       *)
(*  - three's LoadingManager: every load() of the loader calls itemStart   *)
(*    synchronously; a request that ends, loaded or failed, calls itemEnd, *)
(*    which counts it and calls onProgress(url, loaded, total); a failed   *)
(*    request also calls itemError, which calls onError.  Releases of the  *)
(*    library differ in which of itemEnd and itemError a failed request    *)
(*    calls first, so the order is a choice made in Init;                  *)
(*  - setTimeout returns a handle greater than zero and runs the callback  *)
(*    once, when its delay has passed;                                     *)
(*  - requestAnimationFrame queues one callback for the next frame.        *)
(*                                                                         *)
(* Numbers: angles of the ring are counted in quarter turns (PI / 2), a    *)
(* rotation in hundredths of the clock's unit, time in milliseconds.       *)
(***************************************************************************)
EXTENDS Integers, Sequences, FiniteSets, TLC

\* ------------------------------------------------------------- bounds
\* Render invocations explored.
MaxFrames == 2
\* Clock.getDelta() returns a value in 0..MaxDelta.
MaxDelta == 1
\* Timer handles are 1..MaxTimerId.
MaxTimerId == 2
\* Time passes in steps of at most TickStep milliseconds.
TickStep == 22
\* Math.random() returns k / RandomDen for k in 0..RandomDen-1.
RandomDen == 4
\* Members of the particle cloud (the program asks for 2000).
CloudSize == 2

\* -------------------------------------------------- program constants
ASSET_COUNT == 4
RADIUS == 100
FULL_TURN == 4
DELAY == 66
ANGLE_STEP == 1
RING_SPEED == 50
CLOUD_SPEED == 1
CLOUD_R_MIN == 120
CLOUD_R_MAX == 140
CLOUD_Y_MIN == -60
CLOUD_Y_MAX == 100

VARIABLES
    \* window and its listeners
    loadListener,      \* the "load" listener main is registered
    resizeListener,    \* the "resize" listener onResize is registered
    winSize,           \* <<innerWidth, innerHeight>>
    \* load(assets)
    itemErrorFirst,    \* the library calls itemError before itemEnd
    requests,          \* request i: "none", "pending", "loaded", "failed"
    itemsLoaded,       \* LoadingManager's count of ended items
    itemsTotal,        \* LoadingManager's count of started items
    assets,            \* the Map: key -> index of the loaded model
    \* the promise chain of main
    pLoad,             \* the promise load returns
    pInit,             \* load(assets).then(() => initialize(assets))
    pRender,           \* ....then(render)
    pCatch,            \* ....catch((e) => console.error(e))
    errorLogs,         \* calls of console.error by the catch
    \* module-level state
    clock, composer, camera, objects, particles,
    models,            \* the Object3D of each model file: position, rotation
    \* the render loop
    rafPending,        \* frame callbacks requested and not yet delivered
    frames,            \* render invocations so far
    \* onResize's closure and the timers of the window
    id,
    timers,
    \* history variables, read by the properties only
    initCalls,         \* initialize invocations so far
    initKeys,          \* keys of assets when initialize was last invoked
    gap,               \* ms since the last resize event onResize got (<= DELAY)
    burstAge,          \* ms since the first event of the burst (<= DELAY + 1)
    burstEvents,       \* 0: no burst yet, 1: one event, 2: more
    burstIdleStart,    \* the burst's first event found id = 0
    burstOnTime,       \* every event of the burst came < DELAY after its first
    burstCalls,        \* handleResize calls since the burst's first event:
                       \* 0, 1, or 2 for more
    firedGap,          \* gap when handleResize last ran in the burst
    firedAge,          \* burstAge when handleResize last ran in the burst
    lastEventSize,     \* window size at the last resize event onResize got
    unhandledAge       \* ms since the oldest event not yet followed by a
                       \* handleResize call, -1 if there is none

startVars == <<loadListener, itemErrorFirst, requests, itemsLoaded, itemsTotal,
               assets, pLoad, pInit, pRender, pCatch, errorLogs, initCalls,
               initKeys>>
sceneVars == <<clock, composer, camera, objects, particles, models>>
loopVars == <<rafPending, frames>>
resizeVars == <<resizeListener, winSize, id, timers>>
burstVars == <<gap, burstAge, burstEvents, burstIdleStart, burstOnTime,
               burstCalls, firedGap, firedAge, lastEventSize, unhandledAge>>
vars == <<startVars, sceneVars, loopVars, resizeVars, burstVars>>

\* ------------------------------------------------------------ helpers
Min(a, b) == IF a < b THEN a ELSE b

Indices == 0 .. (ASSET_COUNT - 1)

\* "object" + i
KeyNames == <<"object0", "object1", "object2", "object3">>
ObjKey(i) == KeyNames[i + 1]
AllKeys == {ObjKey(i) : i \in Indices}

\* The window sizes tried.
Sizes == {<<8, 6>>, <<2, 1>>}
\* The states of Math.random tried.
Seeds == {0, 1}

RECURSIVE GCD(_, _)
GCD(a, b) == IF b = 0 THEN a ELSE GCD(b, a % b)

\* width / height, as a fraction in lowest terms
Ratio(w, h) == <<w \div GCD(w, h), h \div GCD(w, h)>>

\* Math.cos and Math.sin of a quarter turns
Cos4(a) == <<1, 0, -1, 0>>[(a % FULL_TURN) + 1]
Sin4(a) == <<0, 1, 0, -1>>[(a % FULL_TURN) + 1]

\* ------------------------------------------------------------ promises
\* resolve() and reject(e) of a promise in state p: the first one settles it.
Resolve(p) == IF p = "pending" THEN "fulfilled" ELSE p
Reject(p) == IF p = "pending" THEN "rejected" ELSE p
Settled(p) == p \in {"fulfilled", "rejected"}

\* A reaction of main's chain is queued and has not run yet.
MicrotaskPending ==
    \/ Settled(pLoad) /\ pInit = "pending"
    \/ Settled(pInit) /\ pRender = "pending"
    \/ Settled(pRender) /\ pCatch = "pending"

\* The event loop may start a new task.
TaskReady == ~MicrotaskPending

\* ------------------------------------------------------- initial state
UnsetClock == [defined |-> FALSE]
UnsetComposer == [defined |-> FALSE, size |-> <<0, 0>>, passes |-> 0]
UnsetCamera == [defined |-> FALSE, aspect |-> <<0, 1>>, position |-> <<0, 0, 0>>]
UnsetGroup == [defined |-> FALSE, children |-> <<>>, rotY |-> 0]
NewModel == [x |-> 0, z |-> 0, rotY |-> 0]

Init ==
    /\ loadListener = TRUE
    /\ resizeListener = FALSE
    /\ winSize \in Sizes
    /\ itemErrorFirst \in BOOLEAN
    /\ requests = [i \in Indices |-> "none"]
    /\ itemsLoaded = 0
    /\ itemsTotal = 0
    /\ assets = [k \in {} |-> 0]
    /\ pLoad = "none" /\ pInit = "none" /\ pRender = "none" /\ pCatch = "none"
    /\ errorLogs = 0
    /\ clock = UnsetClock
    /\ composer = UnsetComposer
    /\ camera = UnsetCamera
    /\ objects = UnsetGroup
    /\ particles = UnsetGroup
    /\ models = [i \in Indices |-> NewModel]
    /\ rafPending = 0
    /\ frames = 0
    /\ id = 0
    /\ timers = {}
    /\ initCalls = 0
    /\ initKeys = {}
    /\ gap = DELAY
    /\ burstAge = 0
    /\ burstEvents = 0
    /\ burstIdleStart = FALSE
    /\ burstOnTime = FALSE
    /\ burstCalls = 0
    /\ firedGap = 0
    /\ firedAge = 0
    /\ lastEventSize = <<0, 0>>
    /\ unhandledAge = -1

\* ---------------------------------------------------------------- load
\* loadingManager.onProgress of load: resolve() when loaded === total.
OnProgress(p, loaded, total) == IF loaded = total THEN Resolve(p) ELSE p

\* The "load" event of the window: main removes itself, makes the Map and
\* calls load(assets), which starts the four requests, and chains the
\* reactions.
Main ==
    /\ loadListener
    /\ TaskReady
    /\ loadListener' = FALSE
    /\ assets' = [k \in {} |-> 0]
    /\ itemsTotal' = itemsTotal + ASSET_COUNT
    /\ requests' = [i \in Indices |-> "pending"]
    /\ pLoad' = "pending" /\ pInit' = "pending"
    /\ pRender' = "pending" /\ pCatch' = "pending"
    /\ UNCHANGED <<itemErrorFirst, itemsLoaded, errorLogs, initCalls, initKeys>>
    /\ UNCHANGED <<sceneVars, loopVars, resizeVars, burstVars>>

\* Request i ends with the model: the callback given to objLoader.load stores
\* it, then the manager counts the item and calls onProgress.
RequestLoaded(i) ==
    /\ requests[i] = "pending"
    /\ TaskReady
    /\ requests' = [requests EXCEPT ![i] = "loaded"]
    /\ assets' = [k \in (DOMAIN assets) \cup {ObjKey(i)} |->
                    IF k = ObjKey(i) THEN i ELSE assets[k]]
    /\ itemsLoaded' = itemsLoaded + 1
    /\ pLoad' = OnProgress(pLoad, itemsLoaded + 1, itemsTotal)
    /\ UNCHANGED <<loadListener, itemErrorFirst, itemsTotal, pInit, pRender,
                   pCatch, errorLogs, initCalls, initKeys>>
    /\ UNCHANGED <<sceneVars, loopVars, resizeVars, burstVars>>

\* Request i fails: the manager counts the item and calls onProgress
\* (itemEnd), and calls onError, which is reject (itemError), in the order
\* of the library's release.
RequestFailed(i) ==
    /\ requests[i] = "pending"
    /\ TaskReady
    /\ requests' = [requests EXCEPT ![i] = "failed"]
    /\ itemsLoaded' = itemsLoaded + 1
    /\ pLoad' = IF itemErrorFirst
                THEN OnProgress(Reject(pLoad), itemsLoaded + 1, itemsTotal)
                ELSE Reject(OnProgress(pLoad, itemsLoaded + 1, itemsTotal))
    /\ UNCHANGED <<loadListener, itemErrorFirst, itemsTotal, assets, pInit,
                   pRender, pCatch, errorLogs, initCalls, initKeys>>
    /\ UNCHANGED <<sceneVars, loopVars, resizeVars, burstVars>>

\* ------------------------------------------------- createParticleCloud
\* Math.random(): call j of a generator seeded with seed returns
\* RandomAt(seed, j) / RandomDen.
RandomAt(seed, j) == (seed + 3 * j) % RandomDen

\* random(min, max) on the sample u / RandomDen.
Random(u, min, max) == (u * (max - min)) \div RandomDen + min

\* Mesh p (1..n) of createParticleCloud: six draws; the angle aG is in
\* quarter turns (0 to 2 PI is 0 to FULL_TURN), a rotation in eighths of PI.
Particle(seed, p) ==
    LET j == 6 * (p - 1)
        aG == Random(RandomAt(seed, j + 1), 0, FULL_TURN)
        rG == Random(RandomAt(seed, j + 2), CLOUD_R_MIN, CLOUD_R_MAX)
        yG == Random(RandomAt(seed, j + 3), CLOUD_Y_MIN, CLOUD_Y_MAX)
    IN [position |-> <<rG * Cos4(aG), yG, rG * Sin4(aG)>>,
        rotation |-> <<Random(RandomAt(seed, j + 4), 0, 2 * FULL_TURN),
                       Random(RandomAt(seed, j + 5), 0, 2 * FULL_TURN),
                       Random(RandomAt(seed, j + 6), 0, 2 * FULL_TURN)>>]

CreateParticleCloud(n, seed) ==
    [defined |-> TRUE, children |-> [p \in 1 .. n |-> Particle(seed, p)],
     rotY |-> 0]

\* ---------------------------------------------------------- initialize
\* obj.position.x and obj.position.z of the ring's loop.
RingX(angle) == (0 - RADIUS) * Cos4(angle)
RingZ(angle) == (0 - RADIUS) * Sin4(angle)

\* A faulty variant of NextAngle: the angle is never advanced.
NextAngleStuck(angle) == angle

\* angle += (Math.PI * 2.0) / 4.0
NextAngle(angle) == angle + ANGLE_STEP

\* The loop over the four keys from index i on.  assets.get of a missing key
\* is undefined, and setting its position throws: ok is FALSE and the loop
\* stops with what it has done so far.
RECURSIVE RingLoop(_, _, _, _)
RingLoop(i, angle, ms, children) ==
    IF i = ASSET_COUNT
    THEN [ok |-> TRUE, models |-> ms, children |-> children]
    ELSE IF ObjKey(i) \notin DOMAIN assets
    THEN [ok |-> FALSE, models |-> ms, children |-> children]
    ELSE LET o == assets[ObjKey(i)]
         IN RingLoop(i + 1, NextAngle(angle),
                     [ms EXCEPT ![o].x = RingX(angle), ![o].z = RingZ(angle)],
                     Append(children, o))

\* initialize(assets).  webgl is FALSE when the viewport element or the
\* WebGL renderer cannot be had, which throws after the clock is made; seed
\* is the state of Math.random.
Initialize(seed, webgl) ==
    LET ring == RingLoop(0, 0, models, <<>>)
        done == webgl /\ ring.ok
    IN /\ initCalls' = initCalls + 1
       /\ initKeys' = DOMAIN assets
       /\ clock' = [defined |-> TRUE]
       /\ composer' = IF webgl
                      THEN [defined |-> TRUE, size |-> winSize,
                            passes |-> IF done THEN 2 ELSE 0]
                      ELSE composer
       /\ particles' = IF webgl THEN CreateParticleCloud(CloudSize, seed)
                       ELSE particles
       /\ objects' = IF webgl
                     THEN [defined |-> TRUE, children |-> ring.children,
                           rotY |-> 0]
                     ELSE objects
       /\ models' = IF webgl THEN ring.models ELSE models
       /\ camera' = IF done
                    THEN [defined |-> TRUE,
                          aspect |-> Ratio(winSize[1], winSize[2]),
                          position |-> <<0, 10, 0>>]
                    ELSE camera
       /\ resizeListener' = (resizeListener \/ done)
       /\ pInit' = IF done THEN "fulfilled" ELSE "rejected"

\* A faulty variant of InitializeReady: initialize does not wait for load.
InitializeEarly == pLoad \in {"pending", "fulfilled"} /\ pInit = "pending"

\* The reaction () => initialize(assets) may run.
InitializeReady == pLoad = "fulfilled" /\ pInit = "pending"

ThenInitialize ==
    /\ InitializeReady
    /\ \E seed \in Seeds, webgl \in BOOLEAN : Initialize(seed, webgl)
    /\ UNCHANGED <<loadListener, itemErrorFirst, requests, itemsLoaded,
                   itemsTotal, assets, pLoad, pRender, pCatch, errorLogs>>
    /\ UNCHANGED <<loopVars, winSize, id, timers, burstVars>>

\* load's promise rejected: the reaction is skipped and the rejection passes.
SkipInitialize ==
    /\ pLoad = "rejected" /\ pInit = "pending"
    /\ pInit' = "rejected"
    /\ UNCHANGED <<loadListener, itemErrorFirst, requests, itemsLoaded,
                   itemsTotal, assets, pLoad, pRender, pCatch, errorLogs,
                   initCalls, initKeys>>
    /\ UNCHANGED <<sceneVars, loopVars, resizeVars, burstVars>>

\* -------------------------------------------------------------- render
\* A faulty variant of CloudStep: the cloud turns as fast as the ring.
CloudStepAsRing(delta) == delta * RING_SPEED

\* children[i].rotation.y += delta * 0.5, in hundredths
RingStep(delta) == delta * RING_SPEED
\* particles.rotation.y += delta * 0.01, in hundredths
CloudStep(delta) == delta * CLOUD_SPEED

\* A faulty variant of RequestsNextFrame: the frame is requested last, so
\* not when the invocation throws.
RequestsAfterWork(thrown) == ~thrown

\* requestAnimationFrame(render) is the first statement: the frame is
\* requested whether or not the rest of the invocation throws.
RequestsNextFrame(thrown) == TRUE

Range(f) == {f[x] : x \in DOMAIN f}

\* render(now).  consumed is 1 when a frame callback delivers the invocation,
\* 0 when the promise chain does; delta is what clock.getDelta() returns;
\* fails is TRUE when composer.render throws.  Reading a module variable
\* that is still undefined throws where the code reads it.
Thrown(fails) ==
    \/ ~clock.defined \/ ~objects.defined \/ ~particles.defined
    \/ ~composer.defined \/ fails

Render(consumed, delta, fails) ==
    LET ringDone == clock.defined /\ objects.defined
        cloudDone == ringDone /\ particles.defined
        thrown == Thrown(fails)
    IN /\ rafPending' = (rafPending - consumed)
                            + (IF RequestsNextFrame(thrown) THEN 1 ELSE 0)
       /\ frames' = frames + 1
       /\ models' = IF ringDone
                    THEN [i \in Indices |->
                            IF i \in Range(objects.children)
                            THEN [models[i] EXCEPT !.rotY = @ + RingStep(delta)]
                            ELSE models[i]]
                    ELSE models
       /\ particles' = IF cloudDone
                       THEN [particles EXCEPT !.rotY = @ + CloudStep(delta)]
                       ELSE particles
       /\ UNCHANGED <<clock, composer, camera, objects>>

\* A faulty variant of RenderReady: render runs however initialize ended.
RenderAlways == Settled(pInit) /\ pRender = "pending"

\* The reaction render of .then(render) may run.
RenderReady == pInit = "fulfilled" /\ pRender = "pending"

\* The first render invocation, by the promise chain.
ThenRender ==
    /\ RenderReady
    /\ \E delta \in 0 .. MaxDelta, fails \in BOOLEAN :
          /\ Render(0, delta, fails)
          /\ pRender' = IF Thrown(fails) THEN "rejected" ELSE "fulfilled"
    /\ UNCHANGED <<loadListener, itemErrorFirst, requests, itemsLoaded,
                   itemsTotal, assets, pLoad, pInit, pCatch, errorLogs,
                   initCalls, initKeys>>
    /\ UNCHANGED <<resizeVars, burstVars>>

\* initialize threw or was skipped: render is skipped.
SkipRender ==
    /\ pInit = "rejected" /\ pRender = "pending"
    /\ pRender' = "rejected"
    /\ UNCHANGED <<loadListener, itemErrorFirst, requests, itemsLoaded,
                   itemsTotal, assets, pLoad, pInit, pCatch, errorLogs,
                   initCalls, initKeys>>
    /\ UNCHANGED <<sceneVars, loopVars, resizeVars, burstVars>>

\* .catch((e) => console.error(e)) on a rejected chain.
Catch ==
    /\ pRender = "rejected" /\ pCatch = "pending"
    /\ errorLogs' = errorLogs + 1
    /\ pCatch' = "fulfilled"
    /\ UNCHANGED <<loadListener, itemErrorFirst, requests, itemsLoaded,
                   itemsTotal, assets, pLoad, pInit, pRender, initCalls,
                   initKeys>>
    /\ UNCHANGED <<sceneVars, loopVars, resizeVars, burstVars>>

\* The chain fulfilled: the catch has nothing to handle.
PassCatch ==
    /\ pRender = "fulfilled" /\ pCatch = "pending"
    /\ pCatch' = "fulfilled"
    /\ UNCHANGED <<loadListener, itemErrorFirst, requests, itemsLoaded,
                   itemsTotal, assets, pLoad, pInit, pRender, errorLogs,
                   initCalls, initKeys>>
    /\ UNCHANGED <<sceneVars, loopVars, resizeVars, burstVars>>

\* The browser delivers a requested frame callback: render(now).
Frame ==
    /\ rafPending > 0
    /\ frames < MaxFrames
    /\ TaskReady
    /\ \E delta \in 0 .. MaxDelta, fails \in BOOLEAN : Render(1, delta, fails)
    /\ UNCHANGED <<startVars, resizeVars, burstVars>>

\* ------------------------------------------------------------ onResize
ResizeEvent == [type |-> "resize", target |-> "window"]

\* A faulty variant of Schedules: every event sets a timer.
SchedulesAlways(timerId) == TRUE

\* if(id === 0): onResize sets a timer only when none is outstanding.
Schedules(timerId) == timerId = 0

\* A faulty variant of IdAfterHandle: handleResize forgets id = 0.
IdKept(timerId) == timerId

\* What handleResize leaves in id.
IdAfterHandle(timerId) == 0

\* The handles setTimeout may return: greater than zero and not in use.  It
\* returns the lowest.
FreeHandles == (1 .. MaxTimerId) \ {t.handle : t \in timers}

\* A faulty variant of OnResize: every event clears the outstanding timer and
\* sets a new one.
OnResizeRestart(event) ==
    /\ id' = IF id = 0 THEN 1 ELSE id
    /\ timers' = {[handle |-> id', remaining |-> DELAY, arg |-> event]}

\* onResize(event)
OnResize(event) ==
    IF Schedules(id)
    THEN LET h == CHOOSE f \in FreeHandles : \A g \in FreeHandles : f <= g
         IN /\ FreeHandles # {}
            /\ id' = h
            /\ timers' = timers \cup
                  {[handle |-> h, remaining |-> DELAY, arg |-> event]}
    ELSE UNCHANGED <<id, timers>>

\* The window is resized to size.  Before initialize has registered onResize
\* nothing listens; afterwards the event goes to onResize.
Resize(size) ==
    /\ TaskReady
    /\ winSize' = size
    /\ UNCHANGED <<resizeListener, startVars, sceneVars, loopVars>>
    /\ IF resizeListener
       THEN LET newBurst == gap >= DELAY
            IN /\ OnResize(ResizeEvent)
               /\ gap' = 0
               /\ burstAge' = IF newBurst THEN 0 ELSE burstAge
               /\ burstEvents' = IF newBurst THEN 1 ELSE 2
               /\ burstIdleStart' = IF newBurst THEN id = 0 ELSE burstIdleStart
               /\ burstOnTime' = IF newBurst THEN TRUE
                                 ELSE burstOnTime /\ burstAge < DELAY
               /\ burstCalls' = IF newBurst THEN 0 ELSE burstCalls
               /\ firedGap' = IF newBurst THEN 0 ELSE firedGap
               /\ firedAge' = IF newBurst THEN 0 ELSE firedAge
               /\ lastEventSize' = size
               /\ unhandledAge' = IF unhandledAge = -1 THEN 0 ELSE unhandledAge
       ELSE UNCHANGED <<id, timers, gap, burstAge, burstEvents, burstIdleStart,
                        burstOnTime, burstCalls, firedGap, firedAge,
                        lastEventSize, unhandledAge>>

\* handleResize(event), run by the timer: event.target is the window, whose
\* size is read when the call runs.
HandleResize(event) ==
    LET width == winSize[1]
        height == winSize[2]
    IN /\ composer' = [composer EXCEPT !.size = <<width, height>>]
       /\ camera' = [camera EXCEPT !.aspect = Ratio(width, height)]
       /\ id' = IdAfterHandle(id)

\* A timer whose delay has passed runs its callback and is gone.
TimerFires ==
    /\ TaskReady
    /\ \E t \in timers :
          /\ t.remaining = 0
          /\ timers' = timers \ {t}
          /\ HandleResize(t.arg)
    /\ burstCalls' = Min(burstCalls + 1, 2)
    /\ firedGap' = gap
    /\ firedAge' = burstAge
    /\ unhandledAge' = -1
    /\ UNCHANGED <<resizeListener, winSize, startVars, loopVars, clock, objects,
                   particles, models, gap, burstAge, burstEvents,
                   burstIdleStart, burstOnTime, lastEventSize>>

\* Time passes, by TickStep or up to the next timer's deadline: a timer runs
\* when it is due, so time does not pass a deadline.
TickBy ==
    LET due == {t.remaining : t \in timers}
    IN IF \E r \in due : r < TickStep
       THEN CHOOSE r \in due : \A q \in due : r <= q
       ELSE TickStep

Tick ==
    /\ TaskReady
    /\ TickBy > 0
    /\ timers' = {[t EXCEPT !.remaining = @ - TickBy] : t \in timers}
    /\ gap' = Min(gap + TickBy, DELAY)
    /\ burstAge' = IF burstEvents = 0 THEN burstAge
                   ELSE Min(burstAge + TickBy, DELAY + 1)
    /\ unhandledAge' = IF unhandledAge = -1 THEN -1
                       ELSE Min(unhandledAge + TickBy, DELAY + 1)
    /\ UNCHANGED <<resizeListener, winSize, id, startVars, sceneVars, loopVars,
                   burstEvents, burstIdleStart, burstOnTime, burstCalls,
                   firedGap, firedAge, lastEventSize>>

\* ------------------------------------------------------- specification
Next ==
    \/ Main
    \/ \E i \in Indices : RequestLoaded(i)
    \/ \E i \in Indices : RequestFailed(i)
    \/ ThenInitialize
    \/ SkipInitialize
    \/ ThenRender
    \/ SkipRender
    \/ Catch
    \/ PassCatch
    \/ Frame
    \/ \E size \in Sizes : Resize(size)
    \/ TimerFires
    \/ Tick

Spec == Init /\ [][Next]_vars

\* The event loop runs every queued reaction, delivers every requested frame
\* and runs every timer that is due; time goes on.
FairSpec ==
    /\ Spec
    /\ WF_vars(ThenInitialize) /\ WF_vars(SkipInitialize)
    /\ WF_vars(ThenRender) /\ WF_vars(SkipRender)
    /\ WF_vars(Catch) /\ WF_vars(PassCatch)
    /\ WF_vars(Frame)
    /\ WF_vars(TimerFires)
    /\ WF_vars(Tick)

\* -------------------------------------------------------------- claims
RingMembers == Range(objects.children)

\* C1: the promise load returns is fulfilled only when assets holds all four
\* keys, and initialize is never invoked with fewer.
C1_ResolvesComplete ==
    /\ pLoad = "fulfilled" => DOMAIN assets = AllKeys
    /\ initCalls > 0 => initKeys = AllKeys

\* C2: as soon as one of the four requests has failed, whatever the state of
\* the others, the promise load returns is rejected; it is never fulfilled in
\* a run in which a request failed.
C2_RejectsOnFailure ==
    (\E i \in Indices : requests[i] = "failed") => pLoad = "rejected"

\* C3: initialize starts only after load's promise is fulfilled and runs at
\* most once; render is first invoked only after initialize has returned,
\* and no render invocation finds clock, objects, particles or composer
\* unset.
C3_PhaseOrder ==
    /\ initCalls <= 1
    /\ initCalls > 0 => pLoad = "fulfilled"
    /\ frames > 0 => /\ pInit = "fulfilled"
                     /\ clock.defined /\ objects.defined
                     /\ particles.defined /\ composer.defined

C3_Witness == initCalls = 1 /\ frames = MaxFrames /\ pCatch = "fulfilled"

\* C4: when load's promise is rejected, initialize and render are never
\* invoked (no scene, no resize listener, no frame callback); when
\* initialize fails, render is never invoked; the catch logs the failure
\* once, and nothing is started again.
C4_ShortCircuit ==
    /\ pLoad = "rejected" =>
          /\ initCalls = 0 /\ frames = 0 /\ rafPending = 0
          /\ ~resizeListener
          /\ ~clock.defined /\ ~composer.defined /\ ~objects.defined
    /\ pInit = "rejected" => frames = 0 /\ rafPending = 0 /\ ~resizeListener
    /\ errorLogs <= 1
    /\ (pCatch = "fulfilled" /\ (pLoad = "rejected" \/ pInit = "rejected"))
          => errorLogs = 1
    /\ itemsTotal <= ASSET_COUNT /\ initCalls <= 1

C4_Witness ==
    /\ pLoad = "fulfilled" /\ pInit = "rejected" /\ clock.defined
    /\ pCatch = "fulfilled" /\ errorLogs = 1

\* C5, as claimed: a burst of resize events, each less than 66 ms after the
\* one before (the first finding the debouncer idle), gets one handleResize
\* call, and that call runs 66 ms after the last event of the burst.
C5_OneCallAfterLast ==
    (burstEvents > 0 /\ burstIdleStart) =>
        /\ burstCalls <= 1
        /\ burstCalls = 1 => firedGap = DELAY

\* C5, amended: a burst whose first event finds the debouncer idle and whose
\* other events all come less than 66 ms after that first event gets one
\* handleResize call; it runs 66 ms after the first event of the burst and
\* takes the window's size as it is then, the size of the last event.
C5_OneCallAfterFirst ==
    (burstEvents > 0 /\ burstIdleStart /\ burstOnTime) =>
        /\ burstCalls <= 1
        /\ burstCalls = 0 =>
              /\ id # 0
              /\ \E t \in timers :
                    timers = {t} /\ t.remaining = DELAY - burstAge
        /\ burstCalls = 1 =>
              /\ firedAge = DELAY
              /\ id = 0 /\ timers = {}
              /\ composer.size = lastEventSize
              /\ camera.aspect = Ratio(lastEventSize[1], lastEventSize[2])

C5_Witness ==
    /\ burstEvents = 2 /\ burstIdleStart /\ burstOnTime
    /\ burstCalls = 1 /\ firedGap < DELAY

\* C6: at most one timer is outstanding, and id is 0 exactly when none is; an
\* event that finds a timer outstanding sets none and leaves that timer as
\* it is (its deadline is not moved); id returns to 0 exactly in the step in
\* which the timer runs handleResize.
C6_OneTimer ==
    [][ /\ Cardinality(timers) <= 1 /\ Cardinality(timers') <= 1
        /\ (id = 0) <=> (timers = {})
        /\ (id' = 0) <=> (timers' = {})
        /\ (id # 0 /\ id' # 0) =>
              /\ id' = id
              /\ \A t \in timers : \E u \in timers' :
                    /\ u.handle = t.handle /\ u.handle = id
                    /\ u.remaining <= t.remaining
                    /\ (winSize' # winSize \/ gap' < gap) => u = t
        /\ (id # 0 /\ id' = 0) =>
              /\ \E t \in timers : t.remaining = 0
              /\ composer'.size = winSize
      ]_vars

C6_Witness ==
    /\ burstEvents = 2 /\ gap = 0 /\ id # 0
    /\ \E t \in timers : t.remaining < DELAY

\* C7: a render invocation that reads delta d adds 0.5 d to the y rotation
\* of every member of the ring and 0.01 d to that of the particle group, and
\* changes nothing else of the scene: not the members' positions, the ring's
\* membership, the particles, or the camera.
C7_FrameEffect ==
    [][ frames' = frames + 1 =>
          \E d \in 0 .. MaxDelta :
             /\ \A i \in RingMembers :
                   models'[i] = [models[i] EXCEPT !.rotY = @ + 50 * d]
             /\ \A i \in Indices \ RingMembers : models'[i] = models[i]
             /\ particles' = [particles EXCEPT !.rotY = @ + d]
             /\ objects' = objects
             /\ camera' = camera
             /\ composer' = composer
      ]_vars

C7_Witness == frames = MaxFrames /\ particles.rotY = MaxFrames * MaxDelta

\* C8, as claimed: member i of the ring is at (100 cos(i PI/2), 0,
\* 100 sin(i PI/2)): at (100, 0), (0, 100), (-100, 0), (0, -100) in x and z.
C8_RingAtAngle ==
    pInit = "fulfilled" =>
        /\ objects.children = <<0, 1, 2, 3>>
        /\ <<models[0].x, models[0].z>> = <<100, 0>>
        /\ <<models[1].x, models[1].z>> = <<0, 100>>
        /\ <<models[2].x, models[2].z>> = <<-100, 0>>
        /\ <<models[3].x, models[3].z>> = <<0, -100>>

\* C8, amended: member i of the ring is the asset under key object{i} and is
\* at (-100 cos(i PI/2), 0, -100 sin(i PI/2)): at (-100, 0), (0, -100),
\* (100, 0), (0, 100) in x and z, which is the angle PI + i PI/2 on the
\* circle of radius 100.
C8_RingOpposite ==
    pInit = "fulfilled" =>
        /\ objects.children = <<0, 1, 2, 3>>
        /\ \A i \in Indices : assets[ObjKey(i)] = i
        /\ <<models[0].x, models[0].z>> = <<-100, 0>>
        /\ <<models[1].x, models[1].z>> = <<0, -100>>
        /\ <<models[2].x, models[2].z>> = <<100, 0>>
        /\ <<models[3].x, models[3].z>> = <<0, 100>>

C8_Witness == pInit = "fulfilled" /\ initCalls = 1 /\ models[2].x = 100

\* C9: every render invocation requests one frame callback, first of all and
\* so also when the rest of it throws, and none is ever cancelled: from the
\* first invocation on exactly one callback is pending between invocations,
\* and each invocation is followed by another.
C9_LoopGoesOn ==
    /\ [](frames > 0 => rafPending = 1)
    /\ \A k \in 1 .. (MaxFrames - 1) : (frames = k) ~> (frames = k + 1)

C9_Witness == frames = MaxFrames /\ pRender = "rejected" /\ rafPending = 1

\* C10: every resize event onResize gets is followed, within 66 ms, by a
\* handleResize call; an event not yet followed by one has a timer
\* outstanding, and after the call the debouncer is idle, so that the next
\* event sets a new timer.
C10_EventHandled ==
    /\ [](/\ unhandledAge <= DELAY
          /\ unhandledAge >= 0 => (id # 0 /\ timers # {})
          /\ unhandledAge = -1 => (id = 0 /\ timers = {}))
    /\ (unhandledAge >= 0) ~> (unhandledAge = -1)

C10_Witness == burstCalls = 2 /\ unhandledAge = 0 /\ id # 0

====
